---- MODULE Spec2Model ----
(***************************************************************************)
(* Model of src/daa_miniproject.py: the input validator, the instrumented  *)
(* naive matcher, the instrumented Rabin-Karp matcher and the execution    *)
(* block behind the "Run and Analyze" button.                              *)
(*                                                                         *)
(* A Python str is modelled as a sequence of code points (what ord()       *)
(* returns); Python's 0-based s[k] is Ch(s, k) == s[k + 1].  A record of a *)
(* trace keeps the fields index, phase, p_hash, t_hash, matched,           *)
(* comparisons and details.  iteration_time_s (a wall-clock reading) and   *)
(* memory_bytes (sys.getsizeof of the two inputs) are not modelled.        *)
(* The Rabin-Karp "index" of a rolling_hash record is i + 0.5 in the       *)
(* source; the model stores twice the index in index2 (init: -2, check at  *)
(* i: 2i, roll after i: 2i + 1) so that it stays an integer.               *)
(***************************************************************************)
EXTENDS Integers, Sequences, FiniteSets

\* ---------------------------------------------------------------- bounds
MaxLen == 4
MaxPat == 3

\* Code points used for the inputs: 'A', 'B' and U+00A6, which is 'A' + 101
\* and so collides with 'A' under the default modulus.
Ords == {65, 66, 166}

\* ------------------------------------------------------- program constants
MAX_TEXT_LEN == 20000
DefaultD == 256
DefaultQ == 101

\* (d, q) pairs rabin_karp_instrumented is called with directly.
Params == {<<256, 101>>, <<10, 13>>, <<3, 7>>, <<256, 1>>, <<4, 6>>}

SeqsUpTo(S, k) == UNION {[1..l -> S] : l \in 0..k}
LongText(l) == [k \in 1..l |-> 65]

Texts == SeqsUpTo(Ords, MaxLen)
Patterns == SeqsUpTo(Ords, MaxPat)
LongTexts == {LongText(MAX_TEXT_LEN), LongText(MAX_TEXT_LEN + 1)}

VARIABLES
    widget_text,    \* content of st.text_area "Enter main text (T):"
    widget_pattern, \* content of st.text_input "Enter pattern (P):"
    text, pattern,  \* the script's names text and pattern
    pc,             \* position of the script
    calls,          \* the calls made and returned so far, in order
    error,          \* message shown by st.error, "" when none
    d, q,           \* arguments of rabin_karp_instrumented
    n_i,            \* naive: next value of the outer loop index
    naive_matches, naive_iters,
    h, p_hash, t_hash,
    rk_i,           \* Rabin-Karp: next value of the outer loop index
    rk_matches, rk_iters

vars == <<widget_text, widget_pattern, text, pattern, pc, calls, error, d, q,
          n_i, naive_matches, naive_iters, h, p_hash, t_hash, rk_i,
          rk_matches, rk_iters>>

Ch(s, k) == s[k + 1]

\* ------------------------------------------------------------ validation
\* Variant of validate_inputs: the size limit is exclusive.
validate_inputs_exclusive(t, p) ==
    IF Len(t) = 0 \/ Len(p) = 0
    THEN [ok |-> FALSE, msg |-> "Text and Pattern cannot be empty.", text |-> t, pattern |-> p]
    ELSE IF Len(p) > Len(t)
    THEN [ok |-> FALSE, msg |-> "Pattern cannot be longer than text.", text |-> t, pattern |-> p]
    ELSE IF Len(t) >= MAX_TEXT_LEN
    THEN [ok |-> FALSE, msg |-> "Text too large for interactive demo (max 20,000 chars).",
          text |-> t, pattern |-> p]
    ELSE [ok |-> TRUE, msg |-> "", text |-> t, pattern |-> p]

validate_inputs(t, p) ==
    IF Len(t) = 0 \/ Len(p) = 0
    THEN [ok |-> FALSE, msg |-> "Text and Pattern cannot be empty.", text |-> t, pattern |-> p]
    ELSE IF Len(p) > Len(t)
    THEN [ok |-> FALSE, msg |-> "Pattern cannot be longer than text.", text |-> t, pattern |-> p]
    ELSE IF Len(t) > MAX_TEXT_LEN
    THEN [ok |-> FALSE, msg |-> "Text too large for interactive demo (max 20,000 chars).",
          text |-> t, pattern |-> p]
    ELSE [ok |-> TRUE, msg |-> "", text |-> t, pattern |-> p]

\* ---------------------------------------------------------- naive matcher
\* Variant of NaiveCompare: the comparison is counted only after the
\* characters were found equal.
RECURSIVE NaiveCompareCountEqual(_, _, _, _, _)
NaiveCompareCountEqual(t, p, i, j, st) ==
    IF j >= Len(p) THEN st
    ELSE IF Ch(t, i + j) # Ch(p, j)
         THEN [comparisons |-> st.comparisons, matched |-> FALSE,
               details |-> Append(st.details, [op |-> "!=", t |-> i + j, p |-> j])]
         ELSE NaiveCompareCountEqual(t, p, i, j + 1,
               [comparisons |-> st.comparisons + 1, matched |-> st.matched,
                details |-> Append(st.details, [op |-> "==", t |-> i + j, p |-> j])])

\* The inner loop "for j in range(m)" from index j on, with its break.
RECURSIVE NaiveCompare(_, _, _, _, _)
NaiveCompare(t, p, i, j, st) ==
    IF j >= Len(p) THEN st
    ELSE LET c == st.comparisons + 1 IN
         IF Ch(t, i + j) # Ch(p, j)
         THEN [comparisons |-> c, matched |-> FALSE,
               details |-> Append(st.details, [op |-> "!=", t |-> i + j, p |-> j])]
         ELSE NaiveCompare(t, p, i, j + 1,
               [comparisons |-> c, matched |-> st.matched,
                details |-> Append(st.details, [op |-> "==", t |-> i + j, p |-> j])])

\* Variant of NaiveRange: range(n - m).
NaiveRangeShort(n, m) == n - m

NaiveRange(n, m) == n - m + 1

\* Variant of NaiveAppendMatch: the offset is stored 1-based.
NaiveAppendMatchOneBased(matches, matched, i) ==
    IF matched THEN Append(matches, i + 1) ELSE matches

NaiveAppendMatch(matches, matched, i) ==
    IF matched THEN Append(matches, i) ELSE matches

\* ----------------------------------------------------- Rabin-Karp matcher
\* pow(d, e, q) for e >= 0.
RECURSIVE ModPow(_, _, _)
ModPow(b, e, m) == IF e <= 0 THEN 1 % m ELSE (b * ModPow(b, e - 1, m)) % m

\* "for i in range(m): hash = (d * hash + ord(s[i])) % q" from index i on.
RECURSIVE InitHash(_, _, _, _, _, _)
InitHash(s, m, dd, qq, i, acc) ==
    IF i >= m THEN acc
    ELSE InitHash(s, m, dd, qq, i + 1, (dd * acc + Ch(s, i)) % qq)

\* Variant of RollHash: the leaving character is not weighted by h.
RollHashNoH(dd, qq, hh, th, out, in) == (dd * (th - out) + in) % qq

\* Remainder whose sign follows the dividend.
TruncRem(a, b) == IF a >= 0 THEN a % b ELSE -((-a) % b)

\* Variant of RollHash: truncated remainder instead of Python's floored one.
RollHashTrunc(dd, qq, hh, th, out, in) == TruncRem(dd * (th - out * hh) + in, qq)

RollHash(dd, qq, hh, th, out, in) == (dd * (th - out * hh) + in) % qq

\* Variant of RollGuard: the roll before the last offset is skipped.
RollGuardShort(i, n, m) == i < n - m - 1

RollGuard(i, n, m) == i < n - m

\* The inner loop of the check, "for j in range(m)" from index j on.
RECURSIVE RKCompare(_, _, _, _, _)
RKCompare(t, p, i, j, st) ==
    IF j >= Len(p) THEN st
    ELSE LET c == st.comparisons + 1 IN
         IF Ch(t, i + j) # Ch(p, j)
         THEN [comparisons |-> c, matched |-> FALSE,
               details |-> Append(st.details, [op |-> "!=", t |-> i + j, p |-> j])]
         ELSE RKCompare(t, p, i, j + 1,
               [comparisons |-> c, matched |-> st.matched,
                details |-> Append(st.details, [op |-> "==", t |-> i + j, p |-> j])])

\* Variant of RKCheck: equal hashes are taken as a match.
RKCheckTrustHash(t, p, i, ph, th) ==
    IF ph = th
    THEN [comparisons |-> 0, matched |-> TRUE, details |-> <<>>]
    ELSE [comparisons |-> 0, matched |-> FALSE,
          details |-> <<[op |-> "hash_mismatch", t |-> th, p |-> ph]>>]

\* Variant of RKCheck: the characters are compared whatever the hashes.
RKCheckAlwaysCompare(t, p, i, ph, th) ==
    RKCompare(t, p, i, 0, [comparisons |-> 0, matched |-> TRUE, details |-> <<>>])

\* The check of offset i: the character loop when the hashes agree, the
\* "Hash mismatch" detail otherwise.
RKCheck(t, p, i, ph, th) ==
    IF ph = th
    THEN RKCompare(t, p, i, 0, [comparisons |-> 0, matched |-> TRUE, details |-> <<>>])
    ELSE [comparisons |-> 0, matched |-> FALSE,
          details |-> <<[op |-> "hash_mismatch", t |-> th, p |-> ph]>>]

\* ----------------------------------------------------------------- state
InitWith(T, P) ==
    /\ widget_text \in T
    /\ widget_pattern \in P
    /\ text = widget_text
    /\ pattern = widget_pattern
    /\ pc = "idle"
    /\ calls = <<>>
    /\ error = ""
    /\ d = DefaultD
    /\ q = DefaultQ
    /\ n_i = 0
    /\ naive_matches = <<>>
    /\ naive_iters = <<>>
    /\ h = 0
    /\ p_hash = 0
    /\ t_hash = 0
    /\ rk_i = 0
    /\ rk_matches = <<>>
    /\ rk_iters = <<>>

Init == InitWith(Texts, Patterns)

naive_vars == <<n_i, naive_matches, naive_iters>>
rk_vars == <<d, q, h, p_hash, t_hash, rk_i, rk_matches, rk_iters>>
widgets == <<widget_text, widget_pattern>>

\* Variant of AfterValidate: the exception is swallowed and the run goes on.
AfterValidateIgnore(ok) == "naive_call"

AfterValidate(ok) == IF ok THEN "naive_call" ELSE "error"

\* run_btn pressed: "text, pattern = validate_inputs(text, pattern)" and, when
\* it raises, the except branch with st.error.
RunValidate ==
    /\ pc = "idle"
    /\ LET r == validate_inputs(text, pattern) IN
       /\ pc' = AfterValidate(r.ok)
       /\ calls' = IF r.ok THEN <<"validate_inputs">> ELSE <<"validate_inputs", "st.error">>
       /\ error' = r.msg
       /\ text' = r.text
       /\ pattern' = r.pattern
    /\ UNCHANGED <<widgets, naive_vars, rk_vars>>

\* Entry of naive_string_matching_instrumented.
NaiveCall ==
    /\ pc = "naive_call"
    /\ pc' = "naive_loop"
    /\ calls' = Append(calls, "naive_call")
    /\ n_i' = 0
    /\ naive_matches' = <<>>
    /\ naive_iters' = <<>>
    /\ UNCHANGED <<widgets, text, pattern, error, rk_vars>>

\* One iteration of "for i in range(n - m + 1)".
NaiveIter ==
    /\ pc = "naive_loop"
    /\ n_i < NaiveRange(Len(text), Len(pattern))
    /\ LET i == n_i
           r == NaiveCompare(text, pattern, i, 0,
                    [comparisons |-> 0, matched |-> TRUE, details |-> <<>>])
       IN /\ naive_matches' = NaiveAppendMatch(naive_matches, r.matched, i)
          /\ naive_iters' = Append(naive_iters,
                [index |-> i, matched |-> r.matched,
                 comparisons |-> r.comparisons, details |-> r.details])
          /\ n_i' = i + 1
    /\ UNCHANGED <<widgets, text, pattern, pc, calls, error, rk_vars>>

NaiveReturn ==
    /\ pc = "naive_loop"
    /\ ~(n_i < NaiveRange(Len(text), Len(pattern)))
    /\ pc' = "rk_call"
    /\ calls' = Append(calls, "naive_return")
    /\ UNCHANGED <<widgets, text, pattern, error, naive_vars, rk_vars>>

\* Entry of rabin_karp_instrumented up to the init_hash record.
RKInit(dd, qq) ==
    LET m == Len(pattern)
        ph == InitHash(pattern, m, dd, qq, 0, 0)
        th == InitHash(text, m, dd, qq, 0, 0)
    IN /\ d' = dd
       /\ q' = qq
       /\ h' = ModPow(dd, m - 1, qq)
       /\ p_hash' = ph
       /\ t_hash' = th
       /\ rk_i' = 0
       /\ rk_matches' = <<>>
       /\ rk_iters' = <<[index2 |-> -2, phase |-> "init_hash", p_hash |-> ph,
                        t_hash |-> th, matched |-> FALSE, comparisons |-> 0,
                        details |-> <<[op |-> "init", t |-> th, p |-> ph]>>]>>
       /\ pc' = "rk_loop"
       /\ calls' = Append(calls, "rk_call")

\* "rabin_karp_instrumented(text, pattern)" of the execution block.
RKCall ==
    /\ pc = "rk_call"
    /\ RKInit(DefaultD, DefaultQ)
    /\ UNCHANGED <<widgets, text, pattern, error, naive_vars>>

\* A direct call rabin_karp_instrumented(text, pattern, d, q) on a valid input.
RKDirectCall ==
    /\ pc = "idle"
    /\ validate_inputs(text, pattern).ok
    /\ \E dq \in Params : RKInit(dq[1], dq[2])
    /\ UNCHANGED <<widgets, text, pattern, error, naive_vars>>

\* One iteration of "for i in range(n - m + 1)": the check record and, when
\* i < n - m, the roll and its record.
RKIter ==
    /\ pc = "rk_loop"
    /\ rk_i < Len(text) - Len(pattern) + 1
    /\ LET i == rk_i
           n == Len(text)
           m == Len(pattern)
           r == RKCheck(text, pattern, i, p_hash, t_hash)
           chk == [index2 |-> 2 * i, phase |-> "check", p_hash |-> p_hash,
                   t_hash |-> t_hash, matched |-> r.matched,
                   comparisons |-> r.comparisons, details |-> r.details]
       IN /\ rk_matches' = IF r.matched THEN Append(rk_matches, i) ELSE rk_matches
          /\ IF RollGuard(i, n, m)
             THEN LET th == RollHash(d, q, h, t_hash, Ch(text, i), Ch(text, i + m)) IN
                  /\ t_hash' = th
                  /\ rk_iters' = rk_iters \o <<chk,
                        [index2 |-> 2 * i + 1, phase |-> "rolling_hash",
                         p_hash |-> p_hash, t_hash |-> th, matched |-> FALSE,
                         comparisons |-> 0,
                         details |-> <<[op |-> "rolled", t |-> th, p |-> p_hash]>>]>>
             ELSE /\ t_hash' = t_hash
                  /\ rk_iters' = Append(rk_iters, chk)
          /\ rk_i' = i + 1
    /\ UNCHANGED <<widgets, text, pattern, pc, calls, error, d, q, h, p_hash, naive_vars>>

RKReturn ==
    /\ pc = "rk_loop"
    /\ ~(rk_i < Len(text) - Len(pattern) + 1)
    /\ pc' = "done"
    /\ calls' = Append(calls, "rk_return")
    /\ UNCHANGED <<widgets, text, pattern, error, naive_vars, rk_vars>>

Next ==
    \/ RunValidate
    \/ NaiveCall
    \/ NaiveIter
    \/ NaiveReturn
    \/ RKCall
    \/ RKDirectCall
    \/ RKIter
    \/ RKReturn

Spec == Init /\ [][Next]_vars

\* The validator alone, on inputs that reach the 20,000-character limit.
InitValidate == InitWith(Texts \cup LongTexts, Patterns \cup LongTexts)
NextValidate == RunValidate
SpecValidate == InitValidate /\ [][NextValidate]_vars

\* ------------------------------------------------- reference definitions
N == Len(text)
M == Len(pattern)

\* text[i .. i+m)
Window(i) == SubSeq(text, i + 1, i + M)

Invalid(t, p) == Len(t) = 0 \/ Len(p) = 0 \/ Len(p) > Len(t) \/ Len(t) > MAX_TEXT_LEN

\* The offsets 0..k whose window equals the pattern, in increasing order.
RECURSIVE OccUpTo(_)
OccUpTo(k) ==
    IF k < 0 THEN <<>>
    ELSE IF Window(k) = pattern THEN Append(OccUpTo(k - 1), k) ELSE OccUpTo(k - 1)

Occurrences == OccUpTo(N - M)

SeqSet(s) == {s[k] : k \in DOMAIN s}

StrictlyIncreasing(s) == \A k \in 1..(Len(s) - 1) : s[k] < s[k + 1]

\* Length of the longest common prefix of two sequences of equal length.
LCP(a, b) ==
    CHOOSE k \in 0..Len(b) :
        /\ \A j \in 1..k : a[j] = b[j]
        /\ (k = Len(b) \/ a[k + 1] # b[k + 1])

\* Characters examined at offset i with a stop at the first mismatch.
ShortCircuitCount(i) ==
    LET k == LCP(Window(i), pattern) IN IF k = M THEN M ELSE k + 1

\* hash = (d * hash + ord(c)) mod q folded from 0 over the first k characters.
RECURSIVE ScratchFold(_, _, _, _)
ScratchFold(s, k, dd, qq) ==
    IF k = 0 THEN 0 ELSE (dd * ScratchFold(s, k - 1, dd, qq) + s[k]) % qq

ScratchHash(s) == ScratchFold(s, Len(s), d, q)

IsPrime(x) == x > 1 /\ \A k \in 2..(x - 1) : x % k # 0

RECURSIVE SumComparisons(_)
SumComparisons(s) ==
    IF s = <<>> THEN 0 ELSE s[1].comparisons + SumComparisons(Tail(s))

ButtonRun == calls # <<>> /\ calls[1] = "validate_inputs"
NaiveDone == \E k \in DOMAIN calls : calls[k] = "naive_return"
RKStarted == \E k \in DOMAIN calls : calls[k] = "rk_call"

\* Offset of a check record, and of the check a rolling_hash record follows.
CheckOffset(rec) == rec.index2 \div 2

\* The value d * (t_hash - ord(text[i]) * h) + ord(text[i+m]) of the roll that
\* produced record k (a rolling_hash record, preceded by its check record).
RollTerm(k) ==
    LET i == CheckOffset(rk_iters[k - 1]) IN
    d * (rk_iters[k - 1].t_hash - Ch(text, i) * h) + Ch(text, i + M)

\* ------------------------------------------------------------------ C1
\* C1: both matchers return the list of the offsets i in 0..n-m whose window
\* text[i..i+m) equals the pattern, in increasing order: the naive list at
\* its return, the Rabin-Karp list at its return, and so the two agree.
C1_SameMatches ==
    /\ NaiveDone => naive_matches = Occurrences
    /\ pc = "done" => rk_matches = Occurrences
    /\ (pc = "done" /\ NaiveDone) => naive_matches = rk_matches

\* A finished button run with a match and with a hash collision that the
\* character comparison rejected.
C1_Witness ==
    /\ pc = "done" /\ NaiveDone
    /\ rk_matches # <<>>
    /\ \E k \in DOMAIN rk_iters :
          /\ rk_iters[k].phase = "check"
          /\ rk_iters[k].p_hash = rk_iters[k].t_hash
          /\ ~rk_iters[k].matched

\* ------------------------------------------------------------------ C2
\* C2: for prime q with d coprime to q, the t_hash of every check record at
\* offset i is the from-scratch hash of text[i..i+m), and the t_hash of the
\* rolling_hash record emitted after the check at i is the from-scratch
\* hash of text[i+1..i+1+m).
C2_RollingHashIsScratchHash ==
    (IsPrime(q) /\ d % q # 0) =>
        \A k \in DOMAIN rk_iters :
            LET rec == rk_iters[k] IN
            /\ rec.phase = "check" => rec.t_hash = ScratchHash(Window(CheckOffset(rec)))
            /\ rec.phase = "rolling_hash" =>
                  rec.t_hash = ScratchHash(Window(CheckOffset(rec) + 1))
            /\ rec.phase = "init_hash" =>
                  /\ rec.t_hash = ScratchHash(Window(0))
                  /\ rec.p_hash = ScratchHash(pattern)

\* A finished run with a non-default prime modulus, a pattern of two
\* characters and a roll whose term was negative before the reduction.
C2_Witness ==
    /\ pc = "done" /\ q = 13 /\ M = 2
    /\ \E k \in DOMAIN rk_iters :
          rk_iters[k].phase = "rolling_hash" /\ RollTerm(k) < 0

\* ------------------------------------------------------------------ C3
\* C3: validate_inputs fails exactly when the text is empty, the pattern is
\* empty, the pattern is longer than the text or the text is longer than
\* 20000; otherwise (1 <= len(pattern) <= len(text) <= 20000) it returns the
\* text and the pattern unchanged.
C3_ValidateExactly ==
    calls # <<>> =>
        /\ (pc = "error") <=> Invalid(widget_text, widget_pattern)
        /\ (pc # "error") <=>
              (1 <= Len(widget_pattern) /\ Len(widget_pattern) <= Len(widget_text)
               /\ Len(widget_text) <= MAX_TEXT_LEN)
        /\ pc = "error" => error # ""
        /\ pc # "error" => (text = widget_text /\ pattern = widget_pattern /\ error = "")

\* A text of exactly 20000 characters was accepted.
C3_Witness == pc = "naive_call" /\ Len(text) = MAX_TEXT_LEN /\ calls # <<>>

\* ------------------------------------------------------------------ C4
\* C4: in a run of the button validation comes first; when it fails no
\* matcher is called and no match list or trace exists, only the error; when
\* it succeeds the naive matcher has returned, with its whole trace, before
\* the Rabin-Karp matcher is called, and both work on the validated inputs.
C4_ValidationGatesTheRun ==
    ButtonRun =>
        /\ \/ calls = <<"validate_inputs", "st.error">>
           \/ calls = SubSeq(<<"validate_inputs", "naive_call", "naive_return",
                               "rk_call", "rk_return">>, 1, Len(calls))
        /\ Invalid(widget_text, widget_pattern) =>
              /\ pc = "error" /\ error # ""
              /\ calls = <<"validate_inputs", "st.error">>
              /\ naive_matches = <<>> /\ naive_iters = <<>>
              /\ rk_matches = <<>> /\ rk_iters = <<>>
        /\ ~Invalid(widget_text, widget_pattern) =>
              /\ pc # "error" /\ error = ""
              /\ text = widget_text /\ pattern = widget_pattern
        /\ ~NaiveDone => rk_iters = <<>> /\ rk_matches = <<>>
        /\ RKStarted =>
              /\ NaiveDone
              /\ Len(naive_iters) = N - M + 1
              /\ d = DefaultD /\ q = DefaultQ

\* The button was pressed with a pattern longer than the text.
C4_Witness == ButtonRun /\ pc = "error" /\ Len(widget_pattern) > Len(widget_text)

\* ------------------------------------------------------------------ C5
\* C5: the Rabin-Karp trace starts with the single init_hash record; then
\* come, for i = 0..n-m in order, the check record of offset i followed by a
\* rolling_hash record iff i < n-m.  At the return its length is
\* 1 + (n-m+1) + (n-m) and its last record is the check of offset n-m.
C5_TraceShape ==
    /\ \A k \in DOMAIN rk_iters :
          LET rec == rk_iters[k] IN
          /\ rec.index2 = (IF k = 1 THEN -2 ELSE k - 2)
          /\ rec.phase = (IF k = 1 THEN "init_hash"
                          ELSE IF k % 2 = 0 THEN "check" ELSE "rolling_hash")
    /\ pc = "done" =>
          /\ Len(rk_iters) = 1 + (N - M + 1) + (N - M)
          /\ rk_iters[Len(rk_iters)].phase = "check"
          /\ CheckOffset(rk_iters[Len(rk_iters)]) = N - M

\* A finished run over at least three offsets.
C5_Witness == pc = "done" /\ N - M >= 2 /\ Len(rk_iters) >= 6

\* ------------------------------------------------------------------ C6
\* C6: the k-th record (from 0) of the naive trace has index k, and at the
\* return the trace has exactly n - m + 1 records.
C6_NaiveTraceShape ==
    /\ \A k \in DOMAIN naive_iters : naive_iters[k].index = k - 1
    /\ NaiveDone => Len(naive_iters) = N - M + 1

\* The naive matcher returned after at least three offsets.
C6_Witness == NaiveDone /\ Len(naive_iters) >= 3

\* ------------------------------------------------------------------ C7
\* C7: at every point of a run both match lists are strictly increasing and
\* hold only offsets p with 0 <= p <= n - m.
C7_MatchesIncreasingInRange ==
    /\ StrictlyIncreasing(naive_matches)
    /\ StrictlyIncreasing(rk_matches)
    /\ \A p \in SeqSet(naive_matches) \cup SeqSet(rk_matches) : 0 <= p /\ p <= N - M

\* Both lists hold two matches or more while Rabin-Karp is still looping,
\* the last offset among them in the naive list.
C7_Witness ==
    /\ pc = "rk_loop" /\ rk_i <= N - M
    /\ Len(rk_matches) >= 2
    /\ Len(naive_matches) >= 2
    /\ naive_matches[Len(naive_matches)] = N - M

\* ------------------------------------------------------------------ C8
\* C8: the naive record of offset i counts the characters examined with a
\* stop at the first mismatch: with k the longest common prefix of the window
\* and the pattern, comparisons = m, matched and i in the matches when k = m;
\* comparisons = k + 1 and not matched when k < m.  So 1 <= comparisons <= m,
\* and matched iff comparisons = m and the last compared characters agree.
C8_NaiveComparisons ==
    \A x \in DOMAIN naive_iters :
        LET rec == naive_iters[x]
            i == rec.index
            k == LCP(Window(i), pattern)
        IN /\ k = M => (rec.comparisons = M /\ rec.matched /\ i \in SeqSet(naive_matches))
           /\ k < M => (rec.comparisons = k + 1 /\ ~rec.matched
                        /\ i \notin SeqSet(naive_matches))
           /\ 1 <= rec.comparisons /\ rec.comparisons <= M
           /\ Len(rec.details) = rec.comparisons
           /\ rec.matched <=>
                 (rec.comparisons = M /\ Ch(text, i + M - 1) = Ch(pattern, M - 1))

\* A naive trace of a three-character pattern with a full match and with a
\* mismatch found at the second character.
C8_Witness ==
    /\ M = 3
    /\ \E x \in DOMAIN naive_iters : naive_iters[x].matched
    /\ \E x \in DOMAIN naive_iters :
          ~naive_iters[x].matched /\ naive_iters[x].comparisons = 2

\* ------------------------------------------------------------------ C9
\* C9: init_hash and rolling_hash records have comparisons = 0 and matched
\* false; a check record at offset i has comparisons = 0 and matched false
\* when the hashes differ, and otherwise the short-circuit count the naive
\* matcher records at i, with matched iff the window equals the pattern.  A
\* matched record is a check whose offset is in the match list, and the
\* Rabin-Karp total of comparisons is at most the naive total.
C9_RKComparisons ==
    /\ \A x \in DOMAIN rk_iters :
          LET rec == rk_iters[x]
              i == CheckOffset(rec)
          IN /\ rec.phase # "check" => (rec.comparisons = 0 /\ ~rec.matched)
             /\ (rec.phase = "check" /\ rec.p_hash # rec.t_hash) =>
                   (rec.comparisons = 0 /\ ~rec.matched)
             /\ (rec.phase = "check" /\ rec.p_hash = rec.t_hash) =>
                   /\ rec.comparisons = ShortCircuitCount(i)
                   /\ rec.matched <=> (Window(i) = pattern)
                   /\ NaiveDone => rec.comparisons = naive_iters[i + 1].comparisons
             /\ rec.matched => (rec.phase = "check" /\ i \in SeqSet(rk_matches))
    /\ (pc = "done" /\ NaiveDone) =>
          SumComparisons(rk_iters) <= SumComparisons(naive_iters)

\* A finished button run whose trace has a check skipped on a hash mismatch
\* and a check that compared characters and rejected the window.
C9_Witness ==
    /\ pc = "done" /\ NaiveDone
    /\ \E x \in DOMAIN rk_iters :
          rk_iters[x].phase = "check" /\ rk_iters[x].p_hash # rk_iters[x].t_hash
    /\ \E x \in DOMAIN rk_iters :
          /\ rk_iters[x].phase = "check" /\ rk_iters[x].comparisons >= 1
          /\ ~rk_iters[x].matched

\* ----------------------------------------------------------------- C10
\* C10: with q >= 1 every p_hash and t_hash of the Rabin-Karp trace lies in
\* 0..q-1, and p_hash is the same in every record.
C10_HashesAreResidues ==
    \A x \in DOMAIN rk_iters :
        LET rec == rk_iters[x] IN
        /\ 0 <= rec.t_hash /\ rec.t_hash < q
        /\ 0 <= rec.p_hash /\ rec.p_hash < q
        /\ rec.p_hash = rk_iters[1].p_hash
        /\ rec.p_hash = p_hash

\* A trace of the default modulus with a roll whose term was negative before
\* the reduction.
C10_Witness ==
    /\ q = DefaultQ /\ q >= 1
    /\ \E x \in DOMAIN rk_iters :
          rk_iters[x].phase = "rolling_hash" /\ RollTerm(x) < 0

====
